---- MODULE Spec2Model ----
(***************************************************************************)
(* Model of scripts/analyze_all_splits.py: the deterministic Miller-Rabin  *)
(* test (mod_pow, is_prime), count_digits and analyze_number.              *)
(*                                                                         *)
(* One call of one of the four functions is executed per behaviour.  The   *)
(* variable entry names the function that was called, and pc is the        *)
(* position of the (single-threaded) interpreter inside the call chain     *)
(* analyze_number -> is_prime -> mod_pow.  Every loop iteration of         *)
(* mod_pow, is_prime and analyze_number is one step.                       *)
(***************************************************************************)
EXTENDS Integers, Sequences, FiniteSets

(* ------------------------------ bounds -------------------------------- *)

\* largest argument n of is_prime, count_digits and analyze_number
MaxN == 2050
\* largest base, exponent and modulus of a direct call of mod_pow
MaxBase == 6
MaxExp == 7
MaxMod == 6

(* ----------------------------- constants ------------------------------ *)

\* WITNESSES (line 16)
WITNESSES == <<2, 3, 5, 7, 11, 13, 17, 19, 23, 29, 31, 37>>

VARIABLES
    entry,        \* the function called: is_prime, mod_pow, count_digits, analyze_number
    wide,         \* whether the ints of this call are kept as limb sequences
    pc,           \* position of the interpreter
    arg,          \* the argument n of the called function (0 for mod_pow)
    mp_call,      \* mod_pow: the arguments as passed, [base, exp, mod]
    base,         \* mod_pow: local base
    exp,          \* mod_pow: local exp
    result,       \* mod_pow: local result
    mp_ret,       \* mod_pow: returned value
    ip_n,         \* is_prime: parameter n
    d,            \* is_prime: local d
    r,            \* is_prime: local r
    wi,           \* is_prime: index into WITNESSES of the for loop (1-based)
    x,            \* is_prime: local x
    composite,    \* is_prime: local composite
    j,            \* is_prime: iterations done by the inner for loop
    ip_ret,       \* is_prime: returned value
    cd_ret,       \* count_digits: returned value (direct call)
    num_digits,   \* analyze_number: local num_digits
    k,            \* analyze_number: loop variable k
    split,        \* analyze_number: locals a, b, product of the current iteration
    results       \* analyze_number: local results

vars == <<entry, wide, pc, arg, mp_call, base, exp, result, mp_ret, ip_n, d, r, wi,
          x, composite, j, ip_ret, cd_ret, num_digits, k, split, results>>

callVars == <<entry, wide, arg, cd_ret>>
mpVars == <<mp_call, base, exp, result, mp_ret>>
ipVars == <<ip_n, d, r, wi, x, composite, j, ip_ret>>
anVars == <<num_digits, k, split, results>>

(* ----------------------- Python's int type ---------------------------- *)
(* Python's int has arbitrary precision, while the integers of the model   *)
(* checker end at 2^31 - 1.  In the behaviours with wide = FALSE a Python  *)
(* int is an integer of the model; in those with wide = TRUE it is a       *)
(* sequence of limbs in base 10^4, least significant limb first, without   *)
(* leading zero limbs (zero is <<>>).  The operators Add, Sub, Mul, Div,   *)
(* Mod, Lt, Geq of the script's arithmetic act on either form.             *)

LimbBase == 10 ^ 4

RECURSIVE BigNorm(_)
BigNorm(u) ==
    IF u # <<>> /\ u[Len(u)] = 0 THEN BigNorm(SubSeq(u, 1, Len(u) - 1)) ELSE u

\* the int written with the decimal digits ds, most significant first
BigOfDigits(ds) ==
    LET nd == Len(ds)
        dig(pos) == IF pos < nd THEN ds[nd - pos] ELSE 0
    IN  BigNorm([i \in 1..((nd + 3) \div 4) |->
                    dig(4 * i - 4) + 10 * dig(4 * i - 3)
                    + 100 * dig(4 * i - 2) + 1000 * dig(4 * i - 1)])

\* a small int as a limb sequence
RECURSIVE BigOfInt(_)
BigOfInt(n) ==
    IF n = 0 THEN <<>> ELSE <<n % LimbBase>> \o BigOfInt(n \div LimbBase)

\* comparison: -1, 0 or 1 as u < v, u = v or u > v
RECURSIVE BigCmpFrom(_, _, _)
BigCmpFrom(u, v, i) ==
    IF i = 0 THEN 0
    ELSE IF u[i] < v[i] THEN -1
    ELSE IF u[i] > v[i] THEN 1
    ELSE BigCmpFrom(u, v, i - 1)

BigCmp(u, v) ==
    IF Len(u) < Len(v) THEN -1
    ELSE IF Len(u) > Len(v) THEN 1
    ELSE BigCmpFrom(u, v, Len(u))

\* u + v
RECURSIVE BigAddCarry(_, _, _, _)
BigAddCarry(u, v, i, c) ==
    IF i > Len(u) /\ i > Len(v) THEN (IF c = 0 THEN <<>> ELSE <<c>>)
    ELSE LET t == (IF i <= Len(u) THEN u[i] ELSE 0)
                  + (IF i <= Len(v) THEN v[i] ELSE 0) + c
         IN  <<t % LimbBase>> \o BigAddCarry(u, v, i + 1, t \div LimbBase)

BigAdd(u, v) == BigAddCarry(u, v, 1, 0)

\* u - v, for u >= v
RECURSIVE BigSubBorrow(_, _, _, _)
BigSubBorrow(u, v, i, c) ==
    IF i > Len(u) THEN <<>>
    ELSE LET t == u[i] - (IF i <= Len(v) THEN v[i] ELSE 0) - c
         IN  <<(t + LimbBase) % LimbBase>>
             \o BigSubBorrow(u, v, i + 1, IF t < 0 THEN 1 ELSE 0)

BigSub(u, v) == BigNorm(BigSubBorrow(u, v, 1, 0))

\* u * q for one limb q
RECURSIVE BigMulLimb(_, _, _, _)
BigMulLimb(u, q, i, c) ==
    IF i > Len(u) THEN (IF c = 0 THEN <<>> ELSE <<c>>)
    ELSE LET t == u[i] * q + c
         IN  <<t % LimbBase>> \o BigMulLimb(u, q, i + 1, t \div LimbBase)

\* u * v
RECURSIVE BigMulFrom(_, _, _)
BigMulFrom(u, v, i) ==
    IF i > Len(v) THEN <<>>
    ELSE BigAdd(BigMulLimb(u, v[i], 1, 0), <<0>> \o BigMulFrom(u, v, i + 1))

BigMul(u, v) == BigNorm(BigMulFrom(u, v, 1))

\* the largest q in lo..hi with q * v <= rem
RECURSIVE BigQuotLimb(_, _, _, _)
BigQuotLimb(rem, v, lo, hi) ==
    IF lo = hi THEN lo
    ELSE LET mid == (lo + hi + 1) \div 2
         IN  IF BigCmp(rem, BigNorm(BigMulLimb(v, mid, 1, 0))) # -1
             THEN BigQuotLimb(rem, v, mid, hi)
             ELSE BigQuotLimb(rem, v, lo, mid - 1)

\* u // v and u % v for v > 0, by long division from the top limb down
RECURSIVE BigDivModFrom(_, _, _)
BigDivModFrom(u, v, i) ==
    IF i > Len(u) THEN [q |-> <<>>, r |-> <<>>]
    ELSE LET hi == BigDivModFrom(u, v, i + 1)
             rem == BigNorm(<<u[i]>> \o hi.r)
             q == BigQuotLimb(rem, v, 0, LimbBase - 1)
         IN  [q |-> <<q>> \o hi.q,
              r |-> BigSub(rem, BigNorm(BigMulLimb(v, q, 1, 0)))]

BigDiv(u, v) == BigNorm(BigDivModFrom(u, v, 1).q)
BigMod(u, v) == BigDivModFrom(u, v, 1).r

\* the decimal digits of u, most significant first ("0" for zero)
BigStr(u) ==
    IF u = <<>> THEN <<0>>
    ELSE LET top == u[Len(u)]
             nt == IF top >= 1000 THEN 4 ELSE IF top >= 100 THEN 3
                   ELSE IF top >= 10 THEN 2 ELSE 1
             nd == 4 * (Len(u) - 1) + nt
         IN  [i \in 1..nd |->
                 LET pos == nd - i
                 IN  (u[(pos \div 4) + 1] \div (10 ^ (pos % 4))) % 10]

\* the literal c
Num(c) == IF wide THEN BigOfInt(c) ELSE c

Add(u, v) == IF wide THEN BigAdd(u, v) ELSE u + v
Sub(u, v) == IF wide THEN BigSub(u, v) ELSE u - v
Mul(u, v) == IF wide THEN BigMul(u, v) ELSE u * v
\* // and % of non-negative operands; a zero divisor raises ZeroDivisionError
Div(u, v) == IF wide THEN BigDiv(u, v) ELSE u \div v
Mod(u, v) == IF wide THEN BigMod(u, v) ELSE u % v
Lt(u, v) == IF wide THEN BigCmp(u, v) = -1 ELSE u < v
Geq(u, v) == IF wide THEN BigCmp(u, v) # -1 ELSE u >= v
Gt(u, v) == IF wide THEN BigCmp(u, v) = 1 ELSE u > v

(* The loop counters r, j, wi and k, the length num_digits and the digit  *)
(* counts are small and are integers of the model in both forms.           *)

\* 10 ** k (line 96)
Pow10(e) ==
    IF wide
    THEN [i \in 1..((e \div 4) + 1) |-> IF i = (e \div 4) + 1 THEN 10 ^ (e % 4) ELSE 0]
    ELSE 10 ^ e

\* str(n) for n >= 0 (line 91): the decimal digits of n, most significant
\* first, without leading zeros; "0" for n = 0.
Str(n) ==
    IF wide THEN BigStr(n)
    ELSE LET L == CHOOSE l \in 1..9 :
                      /\ n < 10 ^ l
                      /\ (l = 1 \/ n >= 10 ^ (l - 1))
         IN  [i \in 1..L |-> (n \div (10 ^ (L - i))) % 10]

(* ---------------------------- count_digits ---------------------------- *)

\* lines 76-79: the while loop of count_digits
RECURSIVE CountLoop(_, _)
CountLoop(n, digits) ==
    IF Gt(n, Num(0)) THEN CountLoop(Div(n, Num(10)), digits + 1) ELSE digits

\* count_digits (lines 71-79), mutated: without the n == 0 special case
count_digits_noZeroCase(n) == CountLoop(n, 0)

\* count_digits (lines 71-79)
count_digits(n) == IF n = Num(0) THEN 1 ELSE CountLoop(n, 0)

\* a direct call of count_digits(arg)
CdCall ==
    /\ pc = "cd_start"
    /\ cd_ret' = count_digits(arg)
    /\ pc' = "done"
    /\ UNCHANGED <<entry, wide, arg>>
    /\ UNCHANGED mpVars
    /\ UNCHANGED ipVars
    /\ UNCHANGED anVars

(* ------------------------------ mod_pow ------------------------------- *)

\* where mod_pow returns to: its caller is_prime, or the top level
MpReturnTo == IF entry = "mod_pow" THEN "done" ELSE "ip_after_mp"

\* line 20, mutated: the mod == 1 shortcut is never taken
ModIsOne_never(m) == FALSE

\* line 20: if mod == 1
ModIsOne(m) == m = Num(1)

\* line 27, mutated: exp is not shifted
ShiftRight_dropped(e) == e

\* line 27: exp >>= 1
ShiftRight(e) == Div(e, Num(2))

\* lines 20-23: the mod == 1 shortcut, result = 1, base = base % mod.
\* base % mod raises ZeroDivisionError when mod = 0.
MpStart ==
    /\ pc = "mp_start"
    /\ IF ModIsOne(mp_call.mod)
       THEN /\ mp_ret' = Num(0)
            /\ pc' = "mp_ret"
            /\ UNCHANGED <<base, exp, result>>
       ELSE IF mp_call.mod = Num(0)
       THEN /\ pc' = "error"
            /\ result' = Num(1)
            /\ UNCHANGED <<base, exp, mp_ret>>
       ELSE /\ result' = Num(1)
            /\ base' = Mod(mp_call.base, mp_call.mod)
            /\ exp' = mp_call.exp
            /\ pc' = "mp_loop"
            /\ UNCHANGED mp_ret
    /\ UNCHANGED mp_call
    /\ UNCHANGED callVars
    /\ UNCHANGED ipVars
    /\ UNCHANGED anVars

\* lines 24-29: one iteration of the while loop, or the return
MpLoop ==
    /\ pc = "mp_loop"
    /\ IF Gt(exp, Num(0))
       THEN /\ result' = IF Mod(exp, Num(2)) = Num(1)
                         THEN Mod(Mul(result, base), mp_call.mod)
                         ELSE result
            /\ exp' = ShiftRight(exp)
            /\ base' = Mod(Mul(base, base), mp_call.mod)
            /\ UNCHANGED <<pc, mp_ret>>
       ELSE /\ mp_ret' = result
            /\ pc' = "mp_ret"
            /\ UNCHANGED <<base, exp, result>>
    /\ UNCHANGED mp_call
    /\ UNCHANGED callVars
    /\ UNCHANGED ipVars
    /\ UNCHANGED anVars

\* the return of mod_pow to its caller
MpReturn ==
    /\ pc = "mp_ret"
    /\ pc' = MpReturnTo
    /\ UNCHANGED callVars
    /\ UNCHANGED mpVars
    /\ UNCHANGED ipVars
    /\ UNCHANGED anVars

(* ------------------------------ is_prime ------------------------------ *)

\* where is_prime returns to: its caller analyze_number, or the top level
IpReturnTo == IF entry = "is_prime" THEN "done" ELSE "an_after_ip"

\* line 38, mutated: 37 is missing from the tuple of small primes
InSmallPrimes_no37(n) ==
    n \in {Num(c) : c \in {2, 3, 5, 7, 11, 13, 17, 19, 23, 29, 31}}

\* line 38: n in (2, 3, 5, 7, 11, 13, 17, 19, 23, 29, 31, 37)
InSmallPrimes(n) ==
    n \in {Num(c) : c \in {2, 3, 5, 7, 11, 13, 17, 19, 23, 29, 31, 37}}

\* line 55, mutated: exponent and modulus are passed in the wrong order
ModPowCall_swapped(a, dd, n) == [base |-> a, exp |-> n, mod |-> dd]

\* line 55: the arguments of mod_pow(a, d, n)
ModPowCall(a, dd, n) == [base |-> a, exp |-> dd, mod |-> n]

\* line 56, mutated: x == n - 1 is not accepted
WitnessPasses_onlyOne(xx, n) == xx = Num(1)

\* line 56: if x == 1 or x == n - 1
WitnessPasses(xx, n) == xx = Num(1) \/ xx = Sub(n, Num(1))

\* lines 36-45: the fast paths, then d = n - 1, r = 0
IpStart ==
    /\ pc = "ip_start"
    /\ IF Lt(ip_n, Num(2))
       THEN /\ ip_ret' = FALSE
            /\ pc' = "ip_ret"
            /\ UNCHANGED <<d, r>>
       ELSE IF InSmallPrimes(ip_n)
       THEN /\ ip_ret' = TRUE
            /\ pc' = "ip_ret"
            /\ UNCHANGED <<d, r>>
       ELSE IF Mod(ip_n, Num(2)) = Num(0)
       THEN /\ ip_ret' = FALSE
            /\ pc' = "ip_ret"
            /\ UNCHANGED <<d, r>>
       ELSE /\ d' = Sub(ip_n, Num(1))
            /\ r' = 0
            /\ pc' = "ip_decomp"
            /\ UNCHANGED ip_ret
    /\ UNCHANGED <<ip_n, wi, x, composite, j>>
    /\ UNCHANGED callVars
    /\ UNCHANGED mpVars
    /\ UNCHANGED anVars

\* lines 46-48: one iteration of 'while d % 2 == 0', or the entry of the
\* for loop over WITNESSES (line 51)
IpDecomp ==
    /\ pc = "ip_decomp"
    /\ IF Mod(d, Num(2)) = Num(0)
       THEN /\ d' = Div(d, Num(2))
            /\ r' = r + 1
            /\ UNCHANGED <<pc, wi>>
       ELSE /\ wi' = 1
            /\ pc' = "ip_witness"
            /\ UNCHANGED <<d, r>>
    /\ UNCHANGED <<ip_n, x, composite, j, ip_ret>>
    /\ UNCHANGED callVars
    /\ UNCHANGED mpVars
    /\ UNCHANGED anVars

\* lines 51-55 and 69: the head of 'for a in WITNESSES'.  The loop is
\* exhausted (return True), the witness is skipped (a >= n: continue), or
\* mod_pow(a, d, n) is called.
IpWitness ==
    /\ pc = "ip_witness"
    /\ IF wi > Len(WITNESSES)
       THEN /\ ip_ret' = TRUE
            /\ pc' = "ip_ret"
            /\ UNCHANGED <<wi, mp_call>>
       ELSE IF Geq(Num(WITNESSES[wi]), ip_n)
       THEN /\ wi' = wi + 1
            /\ UNCHANGED <<pc, ip_ret, mp_call>>
       ELSE /\ mp_call' = ModPowCall(Num(WITNESSES[wi]), d, ip_n)
            /\ pc' = "mp_start"
            /\ UNCHANGED <<wi, ip_ret>>
    /\ UNCHANGED <<ip_n, d, r, x, composite, j>>
    /\ UNCHANGED <<base, exp, result, mp_ret>>
    /\ UNCHANGED callVars
    /\ UNCHANGED anVars

\* lines 55-59: x = (the value mod_pow returned); the witness passes, or
\* composite = True and the inner for loop is entered
IpAfterModPow ==
    /\ pc = "ip_after_mp"
    /\ x' = mp_ret
    /\ IF WitnessPasses(mp_ret, ip_n)
       THEN /\ wi' = wi + 1
            /\ pc' = "ip_witness"
            /\ UNCHANGED <<composite, j>>
       ELSE /\ composite' = TRUE
            /\ j' = 0
            /\ pc' = "ip_inner"
            /\ UNCHANGED wi
    /\ UNCHANGED <<ip_n, d, r, ip_ret>>
    /\ UNCHANGED callVars
    /\ UNCHANGED mpVars
    /\ UNCHANGED anVars

\* lines 60-64: one iteration of 'for _ in range(r - 1)', or its end
IpInner ==
    /\ pc = "ip_inner"
    /\ IF j < r - 1
       THEN LET x2 == Mod(Mul(x, x), ip_n)
            IN  /\ x' = x2
                /\ j' = j + 1
                /\ IF x2 = Sub(ip_n, Num(1))
                   THEN /\ composite' = FALSE
                        /\ pc' = "ip_check"
                   ELSE UNCHANGED <<composite, pc>>
       ELSE /\ pc' = "ip_check"
            /\ UNCHANGED <<x, j, composite>>
    /\ UNCHANGED <<ip_n, d, r, wi, ip_ret>>
    /\ UNCHANGED callVars
    /\ UNCHANGED mpVars
    /\ UNCHANGED anVars

\* lines 66-67: if composite: return False; otherwise the next witness
IpCheck ==
    /\ pc = "ip_check"
    /\ IF composite
       THEN /\ ip_ret' = FALSE
            /\ pc' = "ip_ret"
            /\ UNCHANGED wi
       ELSE /\ wi' = wi + 1
            /\ pc' = "ip_witness"
            /\ UNCHANGED ip_ret
    /\ UNCHANGED <<ip_n, d, r, x, composite, j>>
    /\ UNCHANGED callVars
    /\ UNCHANGED mpVars
    /\ UNCHANGED anVars

\* the return of is_prime to its caller
IpReturn ==
    /\ pc = "ip_ret"
    /\ pc' = IpReturnTo
    /\ UNCHANGED callVars
    /\ UNCHANGED mpVars
    /\ UNCHANGED ipVars
    /\ UNCHANGED anVars

(* --------------------------- analyze_number --------------------------- *)

\* line 95, mutated: the range runs one position too far
HasNextSplit_offByOne(kk, nd) == kk <= nd

\* line 95: k in range(1, num_digits) has a next value
HasNextSplit(kk, nd) == kk < nd

\* lines 96-99, mutated: the divisor is 10 * k instead of 10 ** k
Split_timesTen(n, kk) ==
    LET divisor == Num(10 * kk)
        a == Div(n, divisor)
        b == Mod(n, divisor)
    IN  [a |-> a, b |-> b, product |-> Add(Mul(a, b), Num(1))]

\* lines 96-99, mutated: the + 1 of the product is missing
Split_noPlusOne(n, kk) ==
    LET divisor == Pow10(kk)
        a == Div(n, divisor)
        b == Mod(n, divisor)
    IN  [a |-> a, b |-> b, product |-> Mul(a, b)]

\* lines 96-99: divisor, a, b and product of the split at position k
Split(n, kk) ==
    LET divisor == Pow10(kk)
        a == Div(n, divisor)
        b == Mod(n, divisor)
    IN  [a |-> a, b |-> b, product |-> Add(Mul(a, b), Num(1))]

\* lines 90-92: results = [], s = str(n), num_digits = len(s)
AnStart ==
    /\ pc = "an_start"
    /\ results' = <<>>
    /\ num_digits' = Len(Str(arg))
    /\ k' = 1
    /\ pc' = "an_loop"
    /\ UNCHANGED split
    /\ UNCHANGED callVars
    /\ UNCHANGED mpVars
    /\ UNCHANGED ipVars

\* lines 95-102 and 109: the head of 'for k in range(1, num_digits)': the
\* split at k and the call is_prime(product), or return results
AnLoop ==
    /\ pc = "an_loop"
    /\ IF HasNextSplit(k, num_digits)
       THEN /\ split' = Split(arg, k)
            /\ ip_n' = Split(arg, k).product
            /\ pc' = "ip_start"
       ELSE /\ pc' = "done"
            /\ UNCHANGED <<split, ip_n>>
    /\ UNCHANGED <<num_digits, k, results>>
    /\ UNCHANGED <<d, r, wi, x, composite, j, ip_ret>>
    /\ UNCHANGED callVars
    /\ UNCHANGED mpVars

\* lines 102-107: is_product_prime = (the value is_prime returned),
\* product_digits = count_digits(product), results.append(...)
AnAfterIsPrime ==
    /\ pc = "an_after_ip"
    /\ results' = Append(results,
                         [n |-> arg, k |-> k, a |-> split.a, b |-> split.b,
                          product |-> split.product, is_prime |-> ip_ret,
                          digits |-> count_digits(split.product)])
    /\ k' = k + 1
    /\ pc' = "an_loop"
    /\ UNCHANGED <<num_digits, split>>
    /\ UNCHANGED callVars
    /\ UNCHANGED mpVars
    /\ UNCHANGED ipVars

(* --------------------------- specification ---------------------------- *)

\* the locals before the call
InitLocals ==
    /\ pc = CASE entry = "is_prime" -> "ip_start"
              [] entry = "mod_pow" -> "mp_start"
              [] entry = "count_digits" -> "cd_start"
              [] entry = "analyze_number" -> "an_start"
    /\ ip_n = IF entry = "is_prime" THEN arg ELSE Num(0)
    /\ base = Num(0) /\ exp = Num(0) /\ result = Num(0) /\ mp_ret = Num(0)
    /\ d = Num(0) /\ r = 0 /\ wi = 0 /\ x = Num(0) /\ composite = FALSE /\ j = 0
    /\ ip_ret = FALSE
    /\ cd_ret = 0
    /\ num_digits = 0 /\ k = 0 /\ results = <<>>
    /\ split = [a |-> Num(0), b |-> Num(0), product |-> Num(0)]

\* the state at the call of one of the four functions, with arguments
\* within the bounds
Init ==
    /\ wide = FALSE
    /\ entry \in {"is_prime", "mod_pow", "count_digits", "analyze_number"}
    /\ arg \in IF entry = "mod_pow" THEN {0} ELSE 0..MaxN
    /\ mp_call \in IF entry = "mod_pow"
                   THEN [base : 0..MaxBase, exp : 0..MaxExp, mod : 0..MaxMod]
                   ELSE {[base |-> 0, exp |-> 0, mod |-> 0]}
    /\ InitLocals

Next ==
    \/ MpStart
    \/ MpLoop
    \/ MpReturn
    \/ IpStart
    \/ IpDecomp
    \/ IpWitness
    \/ IpAfterModPow
    \/ IpInner
    \/ IpCheck
    \/ IpReturn
    \/ CdCall
    \/ AnStart
    \/ AnLoop
    \/ AnAfterIsPrime

Spec == Init /\ [][Next]_vars

\* the interpreter always takes its next step
FairSpec == Spec /\ WF_vars(Next)

(* --------------------- arguments beyond 2^31 - 1 ---------------------- *)

\* 2^64 - 1 = 18446744073709551615
U64Max == BigOfDigits(<<1, 8, 4, 4, 6, 7, 4, 4, 0, 7, 3, 7, 0, 9, 5, 5, 1, 6, 1, 5>>)

\* arguments n around and above 2^64
WideArgs ==
    { U64Max,
      BigOfDigits(<<9, 9, 9, 9, 9, 9, 9, 9, 9, 9, 9, 9, 9, 9, 9, 9, 9, 9, 9, 9>>),
      BigOfDigits(<<1, 0, 0, 0, 0, 0, 0, 0, 0, 0, 0, 0, 0, 0, 0, 0, 0, 0, 0, 0, 0, 0, 0>>),
      BigOfDigits(<<3, 1, 4, 1, 5, 9, 2, 6, 5, 3, 5, 8, 9, 7, 9, 3, 2, 3, 8, 4, 6>>),
      BigOfDigits(<<1, 8, 4, 4, 6, 7, 4, 4, 0, 7, 3, 7, 0, 9, 5, 5, 1, 5, 5, 7>>) }

\* the state at the call of one of the four functions with such arguments
WideInit ==
    /\ wide = TRUE
    /\ entry \in {"is_prime", "mod_pow", "count_digits", "analyze_number"}
    /\ arg \in IF entry = "mod_pow" THEN {<<>>} ELSE WideArgs
    /\ mp_call \in IF entry = "mod_pow"
                   THEN [base : {<<2>>, U64Max}, exp : WideArgs, mod : {<<1>>, U64Max}]
                   ELSE {[base |-> <<>>, exp |-> <<>>, mod |-> <<>>]}
    /\ InitLocals

WideSpec == WideInit /\ [][Next]_vars

(* ------------------------------ oracles ------------------------------- *)

\* n is prime by trial division: n >= 2 and no dv with 2 <= dv, dv * dv <= n divides n
TrialPrime(n) ==
    /\ n >= 2
    /\ \A dv \in 2..n : dv * dv <= n => n % dv # 0

\* b to the power e, modulo m, by b^0 = 1, b^1 = b and b^(u+v) = b^u * b^v
\* (the exponent is halved to keep the evaluation shallow)
RECURSIVE RefPowMod(_, _, _)
RefPowMod(b, e, m) ==
    IF e = 0 THEN 1 % m
    ELSE IF e = 1 THEN b % m
    ELSE (RefPowMod(b, e \div 2, m) * RefPowMod(b, e - (e \div 2), m)) % m

\* b to the power e (with 0^0 = 1, as in Python)
RECURSIVE Power(_, _)
Power(b, e) == IF e = 0 THEN 1 ELSE b * Power(b, e - 1)

Max(u, v) == IF u >= v THEN u ELSE v

InModPow == pc \in {"mp_start", "mp_loop", "mp_ret"}

InGeneralTest == pc \in {"ip_decomp", "ip_witness", "ip_after_mp", "ip_inner", "ip_check"}
                 \/ (InModPow /\ entry # "mod_pow")

(* ------------------------------- claims ------------------------------- *)
(* The formulas of C1-C5 and C7-C10 are stated for wide = FALSE, where a    *)
(* Python int is an integer of the model.                                  *)

\* C1: whenever is_prime(n) returns, it returns true exactly when n >= 2 and
\* no dv with 2 <= dv and dv * dv <= n divides n; in particular false for
\* 0, 1, every even number above 2 and 341, true for the 12 witness values.
C1_IsPrimeMatchesTrialDivision ==
    pc = "ip_ret" =>
        /\ ip_ret = TrialPrime(ip_n)
        /\ (ip_n \in {0, 1, 341} => ip_ret = FALSE)
        /\ (ip_n > 2 /\ ip_n % 2 = 0 => ip_ret = FALSE)
        /\ ((\E i \in 1..Len(WITNESSES) : WITNESSES[i] = ip_n) => ip_ret = TRUE)

\* is_prime(341) has returned False
C1_Witness ==
    entry = "is_prime" /\ pc = "ip_ret" /\ ip_n = 341 /\ ip_ret = FALSE

\* C2: analyze_number(n) returns exactly max(0, count_digits(n) - 1) records
\* whose split positions are 1, 2, ... in the order returned; a single-digit
\* n, 0 included, yields no record.
C2_RecordCountAndOrder ==
    (entry = "analyze_number" /\ pc = "done") =>
        /\ Len(results) = Max(0, count_digits(arg) - 1)
        /\ \A i \in 1..Len(results) : results[i].k = i
        /\ (arg <= 9 => results = <<>>)

\* analyze_number(1005) has returned three records
C2_Witness ==
    entry = "analyze_number" /\ pc = "done" /\ arg = 1005 /\ Len(results) = 3

\* C3: every record (n, k, A, B, P, ...) of analyze_number(n) satisfies
\* A * 10^k + B = n, 0 <= B < 10^k, A >= 1 and P = A * B + 1.
C3_SplitAlgebra ==
    \A i \in 1..Len(results) :
        LET rec == results[i]
        IN  /\ rec.n = arg
            /\ rec.a * Power(10, rec.k) + rec.b = rec.n
            /\ 0 <= rec.b
            /\ rec.b < Power(10, rec.k)
            /\ rec.a >= 1
            /\ rec.product = rec.a * rec.b + 1

\* analyze_number(1005) has returned with the record k = 2, A = 10, B = 5, P = 51
C3_Witness ==
    /\ entry = "analyze_number" /\ pc = "done" /\ arg = 1005
    /\ Len(results) = 3
    /\ results[2].k = 2 /\ results[2].a = 10 /\ results[2].b = 5
    /\ results[2].product = 51

\* C4: for modulus >= 1, mod_pow(base, exponent, modulus) returns
\* base^exponent mod modulus; mod_pow(a, 0, m) = 1 for m > 1 and
\* mod_pow(a, e, 1) = 0 for every a and e, e = 0 included.
C4_ModPowCorrect ==
    (pc = "mp_ret" /\ mp_call.mod >= 1) =>
        /\ mp_ret = RefPowMod(mp_call.base, mp_call.exp, mp_call.mod)
        /\ (entry = "mod_pow" =>
                mp_ret = Power(mp_call.base, mp_call.exp) % mp_call.mod)
        /\ (mp_call.exp = 0 /\ mp_call.mod > 1 => mp_ret = 1)
        /\ (mp_call.mod = 1 => mp_ret = 0)

\* mod_pow(5, 7, 6) has returned 5
C4_Witness ==
    /\ entry = "mod_pow" /\ pc = "mp_ret"
    /\ mp_call = [base |-> 5, exp |-> 7, mod |-> 6]
    /\ mp_ret = 5

\* C5: count_digits(n) is the length of the decimal string of n, the value
\* len(str(n)) that bounds k in analyze_number; count_digits(0) = 1.
C5_CountDigitsIsStrLen ==
    /\ (entry = "count_digits" /\ pc = "done") =>
           /\ cd_ret = Len(Str(arg))
           /\ (arg = 0 => cd_ret = 1)
    /\ (entry = "analyze_number" /\ pc # "an_start") =>
           num_digits = count_digits(arg)

\* count_digits(0) has returned 1
C5_Witness ==
    entry = "count_digits" /\ pc = "done" /\ arg = 0 /\ cd_ret = 1

\* C6: a split whose divisor 10^k or product P = A * B + 1 exceeds 2^64 - 1
\* surfaces a failure (or aborts the analysis) instead of a record: the
\* records analyze_number returns have no divisor and no P above 2^64 - 1.
\* (Stated for wide = TRUE, where such values exist.)
C6_OverflowIsSurfaced ==
    (entry = "analyze_number" /\ pc = "done") =>
        \A i \in 1..Len(results) :
            /\ Geq(U64Max, Pow10(results[i].k))
            /\ Geq(U64Max, results[i].product)

\* C7, as stated: the general test is reached only when n is odd and
\* n > 37, and no witness is skipped by a >= n.
C7_Original ==
    /\ InGeneralTest => (ip_n % 2 = 1 /\ ip_n > 37)
    /\ (pc = "ip_witness" /\ wi <= Len(WITNESSES)) => WITNESSES[wi] < ip_n

\* C7, amended: the general test is reached only when n is odd, n >= 9 and
\* n is none of the 12 witness values (so also for the odd composites below
\* 37); whenever the witness loop is at a witness a, a < n, so no witness is
\* skipped.
C7_GeneralTestNeverSkips ==
    /\ InGeneralTest =>
           /\ ip_n % 2 = 1
           /\ ip_n >= 9
           /\ \A i \in 1..Len(WITNESSES) : WITNESSES[i] # ip_n
    /\ (pc = "ip_witness" /\ wi <= Len(WITNESSES)) => WITNESSES[wi] < ip_n

\* is_prime(9) is at the head of the witness loop, at the witness 2
C7_Witness ==
    entry = "is_prime" /\ pc = "ip_witness" /\ ip_n = 9 /\ wi = 1

\* C8: in every execution of is_prime(n) and analyze_number(n), mod_pow is
\* called with modulus >= 2 (never with modulus 0).
C8_ModulusAtLeastTwo ==
    (entry \in {"is_prime", "analyze_number"} /\ InModPow) => mp_call.mod >= 2

\* analyze_number(24) has called mod_pow(2, 1, 9) for the product 2 * 4 + 1
C8_Witness ==
    /\ entry = "analyze_number" /\ arg = 24 /\ pc = "mp_start"
    /\ mp_call = [base |-> 2, exp |-> 1, mod |-> 9]

\* C9: every call of is_prime(n) eventually returns a boolean (the
\* decomposition loop, the witness loop with its inner loop and the loop of
\* mod_pow terminate), and no failure is reachable from it.
C9_IsPrimeTotal ==
    /\ (pc = "ip_start") ~> (pc = "ip_ret" /\ ip_ret \in BOOLEAN)
    /\ [](entry \in {"is_prime", "analyze_number"} => pc # "error")

\* is_prime(1009) has returned True after all 12 witnesses passed
C9_Witness ==
    /\ entry = "is_prime" /\ pc = "ip_ret" /\ ip_n = 1009
    /\ ip_ret = TRUE /\ wi = Len(WITNESSES) + 1

\* C10: for every record of analyze_number(n), the divisor 10^k is at most n
\* and 1 <= P <= n, so neither exceeds the range n is in.
C10_DivisorAndProductWithinN ==
    \A i \in 1..Len(results) :
        /\ Power(10, results[i].k) <= arg
        /\ 1 <= results[i].product
        /\ results[i].product <= arg

\* analyze_number(999) has the record k = 1 with P = 99 * 9 + 1 = 892
C10_Witness ==
    /\ entry = "analyze_number" /\ arg = 999 /\ Len(results) >= 1
    /\ results[1].product = 892

====
